---- MODULE Spec2Model ----
(***************************************************************************)
(* Model of src/world/world_map.rs: the dungeon generator                  *)
(* (WorldMap::generate), the tile grid accessors, Room, Feature,           *)
(* FeatureBuilder, the random-element helper and the A* adapter.           *)
(***************************************************************************)
EXTENDS Integers, Sequences, FiniteSets, TLC

VARIABLES
    \* WorldMap::generate: position, arguments and locals
    pc, width, height, tiles, rooms, attempt,
    wall1, wall2, path, starting_loc,
    \* history of generate: grid after the stamp phase / at search time
    stamped, searched,
    \* IterRandomExt::random: the collected elements and the outcome
    elements, picked,
    \* WorldMap::get_tile(_mut) and TileIterator
    query, got, curr, item,
    \* Room::new, walls(), floors()
    roomArgs, room, wallsOut, floorsOut,
    \* Feature and FeatureBuilder
    components, feature, builder, measured

genVars  == <<pc, width, height, tiles, rooms, attempt, wall1, wall2, path,
              starting_loc, stamped, searched>>
randVars == <<elements, picked>>
tileVars == <<query, got, curr, item>>
roomVars == <<roomArgs, room, wallsOut, floorsOut>>
featVars == <<components, feature, builder, measured>>
vars == <<genVars, randVars, tileVars, roomVars, featVars>>

----------------------------------------------------------------------------
\* Bounds of the model
MaxWidth    == 8      \* generate: grid widths 1..MaxWidth
MaxHeight   == 5      \* generate: grid heights 1..MaxHeight
MaxAttempts == 3      \* iterations of the room proposal loop that are explored
MaxSeqLen   == 4      \* random(): longest element sequence
MaxGridDim  == 3      \* get_tile: grid sides 1..MaxGridDim
MaxRoomPos  == 1      \* Room::new: origins 0..MaxRoomPos
MaxRoomDim  == 4      \* Room::new: sides 1..MaxRoomDim
MaxComps    == 2      \* Feature: longest enumerated component list
MaxRel      == 1      \* Feature: relative coordinates -MaxRel..MaxRel
MaxPlace    == 1      \* FeatureBuilder: placements (p, -p) for p in 0..MaxPlace

\* generate is also run on the smallest grid on which three rooms fit and a
\* starting location can still be drawn (rooms 4x3, 3x3, 3x3 side by side).
ThreeRoomGrid == <<13, 4>>
GridSizes == ((1..MaxWidth) \X (1..MaxHeight)) \cup {ThreeRoomGrid}

\* Program constants
RoomDimLo == 3        \* gen_range(3, 15)
RoomDimHi == 15

----------------------------------------------------------------------------
\* Option values: <<>> is None, <<v>> is Some(v)
None == <<>>
Some(v) == <<v>>
IsSome(o) == Len(o) = 1

Range(s) == {s[i] : i \in 1..Len(s)}

\* struct Location
Location(x, y) == [x |-> x, y |-> y]

\* Location::manhattan
manhattan(a, b) ==
    LET total_x == IF a.x > b.x THEN a.x - b.x ELSE b.x - a.x
        total_y == IF a.y > b.y THEN a.y - b.y ELSE b.y - a.y
    IN total_x + total_y

\* enum Terrain
Terrain == {"Debug", "Nothing", "Floor", "Wall"}

\* Tile::new
Tile(terrain) == [terrain |-> terrain, entities |-> <<>>]

\* Rng::gen_range(low, high): the values it can return; it panics on
\* low >= high, which is the empty set here.
GenRange(low, high) == IF low < high THEN low..(high - 1) ELSE {}

----------------------------------------------------------------------------
\* WorldMap::get_tile / get_tile_mut: the index computed (0-based as in the
\* source), and whether the assertion on it fails.  A negative i32 cast with
\* `as usize` is at least 2^63, above the length of any Vec, so the
\* assertion `index < len` on the cast value fails exactly when the i32
\* value is negative or not below the length.
TileIndex(w, loc) == loc.y * w + loc.x
get_tile_faults(w, ts, loc) ==
    ~(TileIndex(w, loc) >= 0 /\ TileIndex(w, loc) < Len(ts))
get_tile(w, ts, loc) == ts[TileIndex(w, loc) + 1]

\* `world.get_tile_mut(loc).terrain = t`
SetTerrain(w, ts, loc, t) ==
    [ts EXCEPT ![TileIndex(w, loc) + 1].terrain = t]

\* WorldMap::get_adjacent
get_adjacent(w, h, loc) ==
    (IF loc.x > 0 THEN <<Location(loc.x - 1, loc.y)>> ELSE <<>>) \o
    (IF loc.y > 0 THEN <<Location(loc.x, loc.y - 1)>> ELSE <<>>) \o
    (IF loc.x < w - 1 THEN <<Location(loc.x + 1, loc.y)>> ELSE <<>>) \o
    (IF loc.y < h - 1 THEN <<Location(loc.x, loc.y + 1)>> ELSE <<>>)

----------------------------------------------------------------------------
\* Room::new: the assertion and the cached cell list (x outer, y inner)
RoomNewFaults(x, y, w, h) == ~(x >= 0 /\ y >= 0 /\ w > 0 /\ h > 0)
RoomNew(x, y, w, h) ==
    [x |-> x, y |-> y, width |-> w, height |-> h,
     locs |-> [k \in 1..(w * h) |->
                 Location(x + ((k - 1) \div h), y + ((k - 1) % h))]]

\* Room::overlaps with the edges compared strictly
overlaps_strict(self, other) ==
    /\ self.x + self.width > other.x /\ other.x + other.width > self.x
    /\ self.y + self.height > other.y /\ other.y + other.height > self.y

\* Room::overlaps
overlaps(self, other) ==
    LET xmin1 == self.x
        xmax1 == self.x + self.width
        xmin2 == other.x
        xmax2 == other.x + other.width
        ymin1 == self.y
        ymax1 == self.y + self.height
        ymin2 == other.y
        ymax2 == other.y + other.height
    IN (xmax1 >= xmin2) /\ (xmax2 >= xmin1) /\ (ymax1 >= ymin2) /\ (ymax2 >= ymin1)

\* Room::walls without the test of the last row
walls_no_last_row(self) ==
    SelectSeq(self.locs, LAMBDA loc:
        loc.x = self.x \/ loc.y = self.y \/
        loc.x = self.x + self.width - 1)

\* Room::walls
walls(self) ==
    SelectSeq(self.locs, LAMBDA loc:
        loc.x = self.x \/ loc.y = self.y \/
        loc.x = self.x + self.width - 1 \/ loc.y = self.y + self.height - 1)

\* Room::floors with the first column let through
floors_first_column(self) ==
    SelectSeq(self.locs, LAMBDA loc:
        loc.x >= self.x /\ loc.y > self.y /\
        loc.x < self.x + self.width - 1 /\ loc.y < self.y + self.height - 1)

\* Room::floors
floors(self) ==
    SelectSeq(self.locs, LAMBDA loc:
        loc.x > self.x /\ loc.y > self.y /\
        loc.x < self.x + self.width - 1 /\ loc.y < self.y + self.height - 1)

\* IterRandomExt::random: it faults on an empty sequence (assert) and when
\* gen_range(0, len - 1) has an empty range; otherwise it returns
\* elements[i] for the i drawn.
random_faults(elems) == Len(elems) = 0 \/ GenRange(0, Len(elems) - 1) = {}
random(elems) ==
    IF Len(elems) = 0 THEN {}
    ELSE {elems[i + 1] : i \in GenRange(0, Len(elems) - 1)}

----------------------------------------------------------------------------
\* NeighborIterator::new without the terrain filter
NeighborIteratorNew_unfiltered(w, h, ts, loc) == get_adjacent(w, h, loc)

\* NeighborIterator::new: the adjacent cells whose terrain is Nothing
NeighborIteratorNew(w, h, ts, loc) ==
    SelectSeq(get_adjacent(w, h, loc),
              LAMBDA l: get_tile(w, ts, l).terrain = "Nothing")

\* All cells of a w x h grid
Cells(w, h) == {Location(x, y) : x \in 0..(w - 1), y \in 0..(h - 1)}

\* ConnectRooms::neighbors as a function of the cell (every edge costs 1)
ConnectNeighbors(w, h, ts) ==
    [l \in Cells(w, h) |-> Range(NeighborIteratorNew(w, h, ts, l))]

\* astar::astar over ConnectRooms: the breadth-first levels from start up to
\* the level that holds the end (<<>> when the end is unreachable) ...
RECURSIVE SearchLevels(_, _, _, _)
SearchLevels(nbrs, end, seen, levels) ==
    LET frontier == levels[Len(levels)] IN
    IF end \in frontier THEN levels
    ELSE LET next == (UNION {nbrs[l] : l \in frontier}) \ seen IN
         IF next = {} THEN <<>>
         ELSE SearchLevels(nbrs, end, seen \cup next, Append(levels, next))

\* ... the shortest paths that end in target at level k ...
RECURSIVE PathsTo(_, _, _, _)
PathsTo(nbrs, levels, k, target) ==
    IF k = 1 THEN {<<target>>}
    ELSE UNION {{Append(p, target) : p \in PathsTo(nbrs, levels, k - 1, pred)} :
                pred \in {l \in levels[k - 1] : target \in nbrs[l]}}

\* ... and the paths the search can return (start and end included);
\* the empty set is the None result.
astar(start, end, nbrs) ==
    LET levels == SearchLevels(nbrs, end, {start}, <<{start}>>) IN
    IF levels = <<>> THEN {} ELSE PathsTo(nbrs, levels, Len(levels), end)

----------------------------------------------------------------------------
\* Values of the variables a specification does not use
GenIdle ==
    /\ pc = "idle" /\ width = 0 /\ height = 0 /\ tiles = <<>> /\ rooms = <<>>
    /\ attempt = 0 /\ wall1 = None /\ wall2 = None /\ path = None
    /\ starting_loc = None /\ stamped = <<>> /\ searched = <<>>
RandIdle == elements = <<>> /\ picked = None
TileIdle == query = None /\ got = None /\ curr = 0 /\ item = None
RoomIdle == roomArgs = None /\ room = None /\ wallsOut = None /\ floorsOut = None
FeatIdle == components = <<>> /\ feature = None /\ builder = None /\ measured = None

----------------------------------------------------------------------------
\* WorldMap::generate

\* lines 13-22: the arguments and the grid filled with Nothing
Init ==
    /\ \E size \in GridSizes : width = size[1] /\ height = size[2]
    /\ tiles = [i \in 1..(width * height) |-> Tile("Nothing")]
    /\ pc = "rooms"
    /\ rooms = <<>>
    /\ attempt = 0
    /\ wall1 = None /\ wall2 = None /\ path = None /\ starting_loc = None
    /\ stamped = <<>> /\ searched = <<>>
    /\ RandIdle /\ TileIdle /\ RoomIdle /\ FeatIdle

Fault ==
    /\ pc' = "fault"
    /\ UNCHANGED <<width, height, tiles, rooms, attempt, wall1, wall2, path,
                   starting_loc, stamped, searched>>

\* lines 32-38: no accepted room overlaps the proposed one
available(chosen, proposed) ==
    \A i \in 1..Len(chosen) : ~overlaps(chosen[i], proposed)

\* lines 26-45: one iteration of the room proposal loop
ProposeRoom ==
    /\ pc = "rooms"
    /\ attempt < MaxAttempts
    /\ \E room_width \in GenRange(RoomDimLo, RoomDimHi),
          room_height \in GenRange(RoomDimLo, RoomDimHi) :
         IF \/ GenRange(0, width - room_width) = {}
            \/ GenRange(0, height - room_height) = {}
         THEN Fault
         ELSE \E room_x \in GenRange(0, width - room_width),
                 room_y \in GenRange(0, height - room_height) :
                IF RoomNewFaults(room_x, room_y, room_width, room_height)
                THEN Fault
                ELSE LET r == RoomNew(room_x, room_y, room_width, room_height) IN
                     /\ rooms' = IF available(rooms, r) THEN Append(rooms, r)
                                 ELSE rooms
                     /\ attempt' = attempt + 1
                     /\ UNCHANGED <<pc, width, height, tiles, wall1, wall2, path,
                                    starting_loc, stamped, searched>>
    /\ UNCHANGED <<randVars, tileVars, roomVars, featVars>>

\* lines 49-55: one room's walls, then its floors
RECURSIVE SetAll(_, _, _, _)
SetAll(w, ts, locs, t) ==
    IF locs = <<>> THEN ts
    ELSE SetAll(w, SetTerrain(w, ts, Head(locs), t), Tail(locs), t)

StampRoom(w, ts, r) ==
    SetAll(w, SetAll(w, ts, walls(r), "Wall"), floors(r), "Floor")

\* lines 48-56: every accepted room, in acceptance order
RECURSIVE StampRooms(_, _, _)
StampRooms(w, ts, rs) ==
    IF rs = <<>> THEN ts
    ELSE StampRooms(w, StampRoom(w, ts, Head(rs)), Tail(rs))

\* lines 47-56: the stamp phase, entered when the loop is over
DrawRooms ==
    /\ pc = "rooms"
    /\ attempt = MaxAttempts
    /\ IF \E i \in 1..Len(rooms) : \E l \in Range(rooms[i].locs) :
              get_tile_faults(width, tiles, l)
       THEN Fault
       ELSE /\ tiles' = StampRooms(width, tiles, rooms)
            /\ stamped' = tiles'
            /\ pc' = "connect"
            /\ UNCHANGED <<width, height, rooms, attempt, wall1, wall2, path,
                           starting_loc, searched>>
    /\ UNCHANGED <<randVars, tileVars, roomVars, featVars>>

\* lines 61-66: two random walls of two random rooms, dug out
PickWalls ==
    /\ pc = "connect"
    /\ IF random_faults(rooms)
       THEN Fault
       ELSE \E r1 \in random(rooms) :
            IF random_faults(walls(r1))
            THEN Fault
            ELSE \E w1 \in random(walls(r1)), r2 \in random(rooms) :
                 IF random_faults(walls(r2))
                 THEN Fault
                 ELSE \E w2 \in random(walls(r2)) :
                        /\ wall1' = Some(w1)
                        /\ wall2' = Some(w2)
                        /\ tiles' = SetTerrain(width,
                                        SetTerrain(width, tiles, w1, "Nothing"),
                                        w2, "Nothing")
                        /\ searched' = tiles'
                        /\ pc' = "search"
                        /\ UNCHANGED <<width, height, rooms, attempt, path,
                                       starting_loc, stamped>>
    /\ UNCHANGED <<randVars, tileVars, roomVars, featVars>>

\* lines 68-75: the search, and the path carved as Debug when there is one
Search ==
    /\ pc = "search"
    /\ LET found == astar(wall1[1], wall2[1],
                          ConnectNeighbors(width, height, tiles)) IN
       IF found = {}
       THEN /\ path' = None
            /\ tiles' = tiles
       ELSE \E p \in found :
              /\ path' = Some(p)
              /\ tiles' = SetAll(width, tiles, p, "Debug")
    /\ pc' = "start"
    /\ UNCHANGED <<width, height, rooms, attempt, wall1, wall2,
                   starting_loc, stamped, searched>>
    /\ UNCHANGED <<randVars, tileVars, roomVars, featVars>>

\* lines 79-81: a random floor of a random room, and the return
PickStart ==
    /\ pc = "start"
    /\ IF random_faults(rooms)
       THEN Fault
       ELSE \E r \in random(rooms) :
            IF random_faults(floors(r))
            THEN Fault
            ELSE \E f \in random(floors(r)) :
                   /\ starting_loc' = Some(f)
                   /\ pc' = "done"
                   /\ UNCHANGED <<width, height, tiles, rooms, attempt, wall1,
                                  wall2, path, stamped, searched>>
    /\ UNCHANGED <<randVars, tileVars, roomVars, featVars>>

Next == ProposeRoom \/ DrawRooms \/ PickWalls \/ Search \/ PickStart

Spec == Init /\ [][Next]_vars

----------------------------------------------------------------------------
\* IterRandomExt::random on its own

\* every sequence over 1..3 of length 0..MaxSeqLen
RECURSIVE SeqsUpTo(_, _)
SeqsUpTo(S, n) ==
    IF n = 0 THEN {<<>>}
    ELSE LET shorter == SeqsUpTo(S, n - 1) IN
         shorter \cup {Append(q, e) : q \in shorter, e \in S}

RandomInit ==
    /\ elements \in SeqsUpTo(1..3, MaxSeqLen)
    /\ picked = None
    /\ GenIdle /\ TileIdle /\ RoomIdle /\ FeatIdle

\* lines 358-363
Random ==
    /\ picked = None
    /\ IF random_faults(elements)
       THEN picked' = Some([fault |-> TRUE, value |-> 0])
       ELSE \E e \in random(elements) :
              picked' = Some([fault |-> FALSE, value |-> e])
    /\ UNCHANGED <<elements, genVars, tileVars, roomVars, featVars>>

RandomNext == Random

RandomSpec == RandomInit /\ [][RandomNext]_vars

----------------------------------------------------------------------------
\* WorldMap::get_tile, get_tile_mut and tiles() on a grid of Nothing tiles

QueryLocations == {Location(x, y) : x \in -1..width, y \in -1..height}

TileInit ==
    /\ width \in 1..MaxGridDim
    /\ height \in 1..MaxGridDim
    /\ tiles = [i \in 1..(width * height) |-> Tile("Nothing")]
    /\ pc = "idle" /\ rooms = <<>> /\ attempt = 0
    /\ wall1 = None /\ wall2 = None /\ path = None /\ starting_loc = None
    /\ stamped = <<>> /\ searched = <<>>
    /\ TileIdle /\ RandIdle /\ RoomIdle /\ FeatIdle

\* the outcome of get_tile / get_tile_mut: the fault, or the index of the
\* tile the returned reference points to
TileAccess(op, loc) ==
    [op |-> op, loc |-> loc,
     fault |-> get_tile_faults(width, tiles, loc),
     index |-> IF get_tile_faults(width, tiles, loc) THEN 0
               ELSE TileIndex(width, loc)]

\* lines 86-90
GetTile ==
    /\ \E loc \in QueryLocations : got' = Some(TileAccess("get_tile", loc))
    /\ UNCHANGED <<query, curr, item, genVars, randVars, roomVars, featVars>>

\* lines 91-95
GetTileMut ==
    /\ \E loc \in QueryLocations : got' = Some(TileAccess("get_tile_mut", loc))
    /\ UNCHANGED <<query, curr, item, genVars, randVars, roomVars, featVars>>

\* lines 83-85 and 163-165: a fresh iterator
Tiles ==
    /\ query = None
    /\ query' = Some("tiles")
    /\ curr' = 0
    /\ item' = None
    /\ UNCHANGED <<got, genVars, randVars, roomVars, featVars>>

\* lines 171-182
TileIteratorNext ==
    /\ query = Some("tiles")
    /\ IF curr < Len(tiles)
       THEN LET this == curr IN
            /\ curr' = curr + 1
            /\ item' = Some([index |-> this,
                             loc |-> Location(this % width, this \div width)])
       ELSE /\ curr' = curr
            /\ item' = None
    /\ UNCHANGED <<query, got, genVars, randVars, roomVars, featVars>>

TileNext == GetTile \/ GetTileMut \/ Tiles \/ TileIteratorNext

TileSpec == TileInit /\ [][TileNext]_vars

----------------------------------------------------------------------------
\* Room::new, walls() and floors() on their own

RoomInit ==
    /\ \E x \in 0..MaxRoomPos, y \in 0..MaxRoomPos,
          w \in 1..MaxRoomDim, h \in 1..MaxRoomDim :
         roomArgs = Some([x |-> x, y |-> y, width |-> w, height |-> h])
    /\ room = None /\ wallsOut = None /\ floorsOut = None
    /\ GenIdle /\ RandIdle /\ TileIdle /\ FeatIdle

\* lines 324-334
New ==
    /\ room = None
    /\ LET a == roomArgs[1] IN
       /\ ~RoomNewFaults(a.x, a.y, a.width, a.height)
       /\ room' = Some(RoomNew(a.x, a.y, a.width, a.height))
    /\ UNCHANGED <<roomArgs, wallsOut, floorsOut,
                   genVars, randVars, tileVars, featVars>>

\* lines 342-345: the iterator collected
Walls ==
    /\ IsSome(room)
    /\ wallsOut' = Some(walls(room[1]))
    /\ UNCHANGED <<roomArgs, room, floorsOut,
                   genVars, randVars, tileVars, featVars>>

\* lines 346-349: the iterator collected
Floors ==
    /\ IsSome(room)
    /\ floorsOut' = Some(floors(room[1]))
    /\ UNCHANGED <<roomArgs, room, wallsOut,
                   genVars, randVars, tileVars, featVars>>

RoomNext == New \/ Walls \/ Floors

RoomSpec == RoomInit /\ [][RoomNext]_vars

----------------------------------------------------------------------------
\* Feature and FeatureBuilder.  A component is <<Location, Terrain>>.

\* `iter().map(..).min().unwrap()` / `.max().unwrap()` over a non-empty list
RECURSIVE IterMin(_)
IterMin(xs) ==
    IF Len(xs) = 1 THEN xs[1]
    ELSE LET m == IterMin(Tail(xs)) IN IF xs[1] <= m THEN xs[1] ELSE m

RECURSIVE IterMax(_)
IterMax(xs) ==
    IF Len(xs) = 1 THEN xs[1]
    ELSE LET m == IterMax(Tail(xs)) IN IF xs[1] > m THEN xs[1] ELSE m

MapX(comps) == [i \in 1..Len(comps) |-> comps[i][1].x]
MapY(comps) == [i \in 1..Len(comps) |-> comps[i][1].y]

\* i32 division, which truncates toward zero (divisor > 0)
I32Div(a, b) == IF a >= 0 THEN a \div b ELSE -((-a) \div b)

\* Feature::new
FeatureOf(comps) == [components |-> comps]

\* Feature::width
FeatureWidth(self) ==
    IF Len(self.components) = 0 THEN 0
    ELSE IterMax(MapX(self.components)) - IterMin(MapX(self.components)) + 1

\* Feature::height measured over the x coordinates
FeatureHeight_over_x(self) ==
    IF Len(self.components) = 0 THEN 0
    ELSE IterMax(MapX(self.components)) - IterMin(MapX(self.components)) + 1

\* Feature::height
FeatureHeight(self) ==
    IF Len(self.components) = 0 THEN 0
    ELSE IterMax(MapY(self.components)) - IterMin(MapY(self.components)) + 1

\* FeatureBuilder::calc_min_x .. calc_max_y
calc_min_x(comps) == IterMin(MapX(comps))
calc_max_x(comps) == IterMax(MapX(comps))
calc_min_y(comps) == IterMin(MapY(comps))
calc_max_y(comps) == IterMax(MapY(comps))

\* FeatureBuilder::new (the assertion is the guard of BuilderNew)
FeatureBuilderNew(comps) ==
    [components |-> comps, location |-> Location(0, 0),
     horiz_align |-> "Center", vert_align |-> "Center"]

\* lines 262-274 with Right aligned on the minimum
BuildHoriz_right_on_min(self) ==
    CASE self.horiz_align = "Left" ->
            self.location.x - calc_min_x(self.components)
      [] self.horiz_align = "Center" ->
            self.location.x - (calc_min_x(self.components) +
                I32Div(calc_max_x(self.components) -
                       calc_min_x(self.components) + 1, 2))
      [] self.horiz_align = "Right" ->
            self.location.x - calc_min_x(self.components)

\* FeatureBuilder::build, lines 262-274
BuildHoriz(self) ==
    CASE self.horiz_align = "Left" ->
            self.location.x - calc_min_x(self.components)
      [] self.horiz_align = "Center" ->
            self.location.x - (calc_min_x(self.components) +
                I32Div(calc_max_x(self.components) -
                       calc_min_x(self.components) + 1, 2))
      [] self.horiz_align = "Right" ->
            self.location.x - calc_max_x(self.components)

\* FeatureBuilder::build, lines 275-287
BuildVert(self) ==
    CASE self.vert_align = "Top" ->
            self.location.y - calc_min_y(self.components)
      [] self.vert_align = "Center" ->
            self.location.y - (calc_min_y(self.components) +
                I32Div(calc_max_y(self.components) -
                       calc_min_y(self.components) + 1, 2))
      [] self.vert_align = "Bottom" ->
            self.location.y - calc_max_y(self.components)

\* FeatureBuilder::build
build(self) ==
    LET horiz == BuildHoriz(self)
        vert == BuildVert(self)
        comps == [i \in 1..Len(self.components) |->
                    <<Location(self.components[i][1].x + horiz,
                               self.components[i][1].y + vert),
                      self.components[i][2]>>]
    IN [components |-> comps]

\* The component lists of the tests (lines 426-429, 443-449, 497-507)
WallsAt(points) == [i \in 1..Len(points) |->
                      <<Location(points[i][1], points[i][2]), "Wall">>]
TestSizeComps == WallsAt(<<<<0, 0>>, <<1, 0>>, <<1, 1>>>>)
TestComps == WallsAt(<<<<1, 1>>, <<2, 1>>, <<1, 2>>, <<2, 2>>, <<1, 3>>>>)
TestSquare == WallsAt(<<<<0, 0>>, <<1, 0>>, <<2, 0>>, <<0, 1>>, <<1, 1>>,
                        <<2, 1>>, <<0, 2>>, <<1, 2>>, <<2, 2>>>>)

\* The enumerated component lists: up to MaxComps components with relative
\* coordinates in -MaxRel..MaxRel; the terrains are given out in turn, so
\* that a list of several components mixes them
EnumLocations == {Location(x, y) : x \in -MaxRel..MaxRel, y \in -MaxRel..MaxRel}
TerrainInTurn == <<"Wall", "Floor", "Debug", "Nothing">>
EnumComponentLists ==
    {[i \in 1..Len(locs) |-> <<locs[i], TerrainInTurn[((i - 1) % 4) + 1]>>] :
        locs \in SeqsUpTo(EnumLocations, MaxComps)}
InputComponentLists ==
    EnumComponentLists \cup {TestSizeComps, TestComps, TestSquare}

\* The placements: the default one, shifted ones, and those of the tests for
\* the tests' component lists
Placements(comps) ==
    {Location(p, -p) : p \in 0..MaxPlace}
        \cup (IF comps = TestComps THEN {Location(2, 3), Location(5, 2)}
              ELSE IF comps = TestSquare THEN {Location(4, 1)} ELSE {})

FeatureInit ==
    /\ components \in InputComponentLists
    /\ feature = None /\ builder = None /\ measured = None
    /\ pc = "run" /\ width = 0 /\ height = 0 /\ tiles = <<>> /\ rooms = <<>>
    /\ attempt = 0 /\ wall1 = None /\ wall2 = None /\ path = None
    /\ starting_loc = None /\ stamped = <<>> /\ searched = <<>>
    /\ RandIdle /\ TileIdle /\ RoomIdle

FeatFrame == <<width, height, tiles, rooms, attempt, wall1, wall2, path,
               starting_loc, stamped, searched, randVars, tileVars, roomVars>>

\* lines 194-196
FeatureNew ==
    /\ pc = "run" /\ feature = None
    /\ feature' = Some(FeatureOf(components))
    /\ UNCHANGED <<pc, components, builder, measured, FeatFrame>>

\* lines 197-204
Width ==
    /\ IsSome(feature)
    /\ measured' = Some([op |-> "width", val |-> FeatureWidth(feature[1])])
    /\ UNCHANGED <<pc, components, feature, builder, FeatFrame>>

\* lines 205-212
Height ==
    /\ IsSome(feature)
    /\ measured' = Some([op |-> "height", val |-> FeatureHeight(feature[1])])
    /\ UNCHANGED <<pc, components, feature, builder, FeatFrame>>

\* lines 240-248
BuilderNew ==
    /\ pc = "run" /\ builder = None
    /\ IF ~(Len(components) > 0)
       THEN pc' = "fault" /\ builder' = builder
       ELSE pc' = pc /\ builder' = Some(FeatureBuilderNew(components))
    /\ UNCHANGED <<components, feature, measured, FeatFrame>>

\* lines 249-252; the chain is configured before it is built, as in the tests
SetLocation ==
    /\ IsSome(builder) /\ feature = None
    /\ \E loc \in Placements(components) :
         builder' = Some([builder[1] EXCEPT !.location = loc])
    /\ UNCHANGED <<pc, components, feature, measured, FeatFrame>>

\* lines 253-256
SetHorizAlign ==
    /\ IsSome(builder) /\ feature = None
    /\ \E align \in {"Left", "Center", "Right"} :
         builder' = Some([builder[1] EXCEPT !.horiz_align = align])
    /\ UNCHANGED <<pc, components, feature, measured, FeatFrame>>

\* lines 257-260
SetVertAlign ==
    /\ IsSome(builder) /\ feature = None
    /\ \E align \in {"Top", "Center", "Bottom"} :
         builder' = Some([builder[1] EXCEPT !.vert_align = align])
    /\ UNCHANGED <<pc, components, feature, measured, FeatFrame>>

\* lines 261-297
Build ==
    /\ IsSome(builder) /\ feature = None
    /\ feature' = Some(build(builder[1]))
    /\ UNCHANGED <<pc, components, builder, measured, FeatFrame>>

FeatureNext == FeatureNew \/ Width \/ Height

FeatureSpec == FeatureInit /\ [][FeatureNext]_vars

BuilderNext ==
    BuilderNew \/ SetLocation \/ SetHorizAlign \/ SetVertAlign \/ Build

BuilderSpec == FeatureInit /\ [][BuilderNext]_vars

----------------------------------------------------------------------------
\* Properties

SetMin(S) == CHOOSE m \in S : \A e \in S : m <= e
SetMax(S) == CHOOSE m \in S : \A e \in S : m >= e
Count(q, e) == Cardinality({i \in 1..Len(q) : q[i] = e})
TerrainAt(ts, loc) == get_tile(width, ts, loc).terrain

\* Two rooms' bounding boxes [x, x+width] x [y, y+height], edges included,
\* have a point in common
BoxesMeet(a, b) ==
    /\ (a.x..(a.x + a.width)) \cap (b.x..(b.x + b.width)) # {}
    /\ (a.y..(a.y + a.height)) \cap (b.y..(b.y + b.height)) # {}

\* C1: at every point of the room proposal loop and after it, no two distinct
\* accepted rooms overlap under the inclusive-edge bounding-box test, in
\* either argument order.
C1_AcceptedRoomsDisjoint ==
    \A i, j \in 1..Len(rooms) :
        i # j => /\ ~BoxesMeet(rooms[i], rooms[j])
                 /\ ~overlaps(rooms[i], rooms[j])
                 /\ ~overlaps(rooms[j], rooms[i])

\* two rooms were accepted and a later proposal was rejected
C1_Witness == Len(rooms) >= 2 /\ Len(rooms) < attempt

\* C2: when generate returns, the grid holds width*height tiles, the starting
\* location lies strictly inside an accepted room and its tile is Floor.
C2_StartOnFloor ==
    pc = "done" =>
        /\ Len(tiles) = width * height
        /\ LET s == starting_loc[1] IN
           /\ \E i \in 1..Len(rooms) :
                /\ rooms[i].x < s.x /\ s.x < rooms[i].x + rooms[i].width - 1
                /\ rooms[i].y < s.y /\ s.y < rooms[i].y + rooms[i].height - 1
           /\ tiles[s.y * width + s.x + 1].terrain = "Floor"

\* generate has returned after carving a path of several cells
C2_Witness == pc = "done" /\ IsSome(path) /\ Len(path[1]) >= 3

\* C3: no step of generate faults, whatever the positive grid size and the
\* random draws.
C3_NeverFaults == pc # "fault"

\* C4: random on n >= 1 elements does not fault, returns one of them and can
\* return each of them; on no elements it faults.
C4_RandomOverAll ==
    IsSome(picked) =>
        IF Len(elements) = 0 THEN picked[1].fault
        ELSE /\ ~picked[1].fault
             /\ picked[1].value \in Range(elements)
             /\ \A i \in 1..Len(elements) : elements[i] \in random(elements)

\* C5: get_tile and get_tile_mut fault for every location outside
\* [0,width) x [0,height); inside it they return the tile at index
\* y*width + x, the one tiles() yields with that location.
C5_TileAccess ==
    /\ IsSome(got) =>
          LET g == got[1]
              inside == /\ 0 <= g.loc.x /\ g.loc.x < width
                        /\ 0 <= g.loc.y /\ g.loc.y < height
          IN IF inside THEN ~g.fault /\ g.index = g.loc.y * width + g.loc.x
             ELSE g.fault
    /\ (IsSome(got) /\ IsSome(item)) =>
          ((~got[1].fault /\ got[1].loc = item[1].loc)
              => got[1].index = item[1].index)

\* The cells of the rectangle given to Room::new, and its border
Rect(a) == {Location(i, j) : i \in a.x..(a.x + a.width - 1),
                             j \in a.y..(a.y + a.height - 1)}
OnBorder(a, c) ==
    \/ c.x = a.x \/ c.y = a.y
    \/ c.x = a.x + a.width - 1 \/ c.y = a.y + a.height - 1

\* C6: the room's cell list holds each cell of the rectangle once; walls()
\* yields each border cell once and nothing else, floors() each other cell
\* once and nothing else, so the two partition the cell list.
C6_WallsFloorsPartition ==
    LET a == roomArgs[1] IN
    /\ IsSome(room) =>
          /\ Range(room[1].locs) = Rect(a)
          /\ Len(room[1].locs) = Cardinality(Rect(a))
    /\ IsSome(wallsOut) =>
          /\ Range(wallsOut[1]) = {c \in Rect(a) : OnBorder(a, c)}
          /\ \A c \in Range(wallsOut[1]) : Count(wallsOut[1], c) = 1
    /\ IsSome(floorsOut) =>
          /\ Range(floorsOut[1]) = {c \in Rect(a) : ~OnBorder(a, c)}
          /\ \A c \in Range(floorsOut[1]) : Count(floorsOut[1], c) = 1
    /\ (IsSome(wallsOut) /\ IsSome(floorsOut)) =>
          \A c \in Rect(a) :
              Count(wallsOut[1], c) + Count(floorsOut[1], c) = 1

\* both were enumerated for a room that has walls and floors
C6_Witness ==
    /\ IsSome(wallsOut) /\ IsSome(floorsOut)
    /\ Len(wallsOut[1]) > 0 /\ Len(floorsOut[1]) > 0

\* The offset the alignment rule gives along one axis
AlignOffset(p, lo, hi, align) ==
    CASE align \in {"Left", "Top"} -> p - lo
      [] align \in {"Right", "Bottom"} -> p - hi
      [] align = "Center" -> p - (lo + ((hi - lo + 1) \div 2))

\* C7: build keeps the number, order and terrains of the components and
\* moves every location by the one (dx, dy) of the alignment rule, computed
\* from the final configuration only; Left/Top put the minimum of the built
\* bounding box at P, Right/Bottom its maximum; the three test cases yield
\* the lists the tests expect.
C7_BuildTranslates ==
    (IsSome(builder) /\ IsSome(feature)) =>
        LET b == builder[1]
            in == b.components
            out == feature[1].components
            xs == {in[i][1].x : i \in 1..Len(in)}
            ys == {in[i][1].y : i \in 1..Len(in)}
            dx == AlignOffset(b.location.x, SetMin(xs), SetMax(xs), b.horiz_align)
            dy == AlignOffset(b.location.y, SetMin(ys), SetMax(ys), b.vert_align)
            oxs == {out[i][1].x : i \in 1..Len(out)}
            oys == {out[i][1].y : i \in 1..Len(out)}
        IN /\ in = components
           /\ Len(out) = Len(in)
           /\ \A i \in 1..Len(in) :
                /\ out[i][2] = in[i][2]
                /\ out[i][1] = Location(in[i][1].x + dx, in[i][1].y + dy)
           /\ b.horiz_align = "Left" => SetMin(oxs) = b.location.x
           /\ b.horiz_align = "Right" => SetMax(oxs) = b.location.x
           /\ b.vert_align = "Top" => SetMin(oys) = b.location.y
           /\ b.vert_align = "Bottom" => SetMax(oys) = b.location.y
           /\ (in = TestComps /\ b.location = Location(2, 3)
                 /\ b.horiz_align = "Left" /\ b.vert_align = "Top")
                => out = WallsAt(<<<<2, 3>>, <<3, 3>>, <<2, 4>>, <<3, 4>>, <<2, 5>>>>)
           /\ (in = TestComps /\ b.location = Location(5, 2)
                 /\ b.horiz_align = "Right" /\ b.vert_align = "Bottom")
                => out = WallsAt(<<<<4, 0>>, <<5, 0>>, <<4, 1>>, <<5, 1>>, <<4, 2>>>>)
           /\ (in = TestSquare /\ b.location = Location(4, 1)
                 /\ b.horiz_align = "Center" /\ b.vert_align = "Center")
                => out = WallsAt(<<<<3, 0>>, <<4, 0>>, <<5, 0>>, <<3, 1>>, <<4, 1>>,
                                   <<5, 1>>, <<3, 2>>, <<4, 2>>, <<5, 2>>>>)

\* a feature of several columns was built Right/Top at a placement other
\* than the default
C7_Witness ==
    /\ IsSome(builder) /\ IsSome(feature)
    /\ builder[1].horiz_align = "Right" /\ builder[1].vert_align = "Top"
    /\ builder[1].location # Location(0, 0)
    /\ \E i, j \in 1..Len(components) :
         /\ components[i][1].x # components[j][1].x
         /\ components[i][2] # components[j][2]

\* the search found no path (the state after it, up to the return or a fault)
SearchRan == IsSome(wall1) /\ pc \in {"start", "done", "fault"}
DebugCells == {l \in Cells(width, height) : TerrainAt(tiles, l) = "Debug"}

\* C8: after a search that finds no path, generate does not fault, the
\* carving step changes no tile, and the returned grid tells the failure
\* from a success.
C8_FailedSearchTolerated ==
    /\ (SearchRan /\ path = None) => (pc # "fault" /\ tiles = searched)
    /\ pc = "done" => (IsSome(path) <=> DebugCells # {})

\* C9: width and height are max - min + 1 over the set of the components' x
\* and y coordinates, 0 for no components; 2 and 2 for the test's feature.
C9_FeatureSize ==
    IsSome(measured) =>
        LET cs == feature[1].components
            m == measured[1]
            coords == IF m.op = "width"
                      THEN {cs[i][1].x : i \in 1..Len(cs)}
                      ELSE {cs[i][1].y : i \in 1..Len(cs)}
        IN /\ m.val = IF cs = <<>> THEN 0
                      ELSE SetMax(coords) - SetMin(coords) + 1
           /\ cs = TestSizeComps => m.val = 2

\* the height of a feature wider than it is high, whose components are not
\* in ascending order, was measured
C9_Witness ==
    /\ IsSome(measured) /\ measured[1].op = "height"
    /\ FeatureWidth(feature[1]) > measured[1].val
    /\ measured[1].val >= 1
    /\ \E i, j \in 1..Len(components) :
         i < j /\ components[i][1].x > components[j][1].x

\* C10: the connection phase opens the two doorways and carves the path, and
\* nothing else: the grid searched is the stamped grid with the two doorways
\* Nothing; a path starts and ends at the doorways, steps between adjacent
\* cells and, after its start, runs over cells that were Nothing; the Debug
\* tiles are exactly the path cells; without a path the searched grid is
\* kept; every other stamped Wall or Floor tile keeps its terrain.
C10_ConnectionFrame ==
    IsSome(wall1) =>
        LET w1 == wall1[1]
            w2 == wall2[1]
            cells == Cells(width, height)
        IN /\ \A l \in cells :
                TerrainAt(searched, l) =
                    IF l \in {w1, w2} THEN "Nothing" ELSE TerrainAt(stamped, l)
           /\ pc = "search" => tiles = searched
           /\ (SearchRan /\ path = None) => tiles = searched
           /\ (SearchRan /\ IsSome(path)) =>
                LET p == path[1] IN
                /\ p[1] = w1 /\ p[Len(p)] = w2
                /\ \A i \in 2..Len(p) :
                     /\ manhattan(p[i - 1], p[i]) = 1
                     /\ TerrainAt(searched, p[i]) = "Nothing"
                /\ DebugCells = Range(p)
                /\ \A l \in cells \ Range(p) :
                     TerrainAt(tiles, l) = TerrainAt(searched, l)
           /\ \A l \in cells \ {w1, w2} :
                TerrainAt(stamped, l) \in {"Wall", "Floor"}
                    => TerrainAt(tiles, l) = TerrainAt(stamped, l)

\* generate has returned after connecting doorways of two different rooms
\* through cells outside them
C10_Witness ==
    /\ pc = "done" /\ IsSome(path) /\ Len(path[1]) >= 3
    /\ \E i, j \in 1..Len(rooms) :
         /\ i # j
         /\ wall1[1] \in Range(rooms[i].locs)
         /\ wall2[1] \in Range(rooms[j].locs)

====
